---------------------------- MODULE Spec2Model ----------------------------
(***************************************************************************)
(* A model of the FileRenamer utilities: the image renamer                 *)
(* (rename_image_files.py), the PDF renamer (rename_pdf_files.py) and the  *)
(* model wrapper they call (gemini_vision.py).                             *)
(*                                                                         *)
(* A Python string is a sequence of one-character strings; a path is a     *)
(* record of its directory and its file name; the file system is a         *)
(* function from the paths that exist to what is stored there.             *)
(***************************************************************************)
EXTENDS Integers, Sequences, FiniteSets, TLC

VARIABLES
    fs,        \* the file system: path -> entry
    prog,      \* the script of the current or last run: "none", "image", "pdf"
    todo,      \* the listed files the running script has not yet handled
    runStart,  \* the file system when the running script started
    runs,      \* how many script invocations have been started
    status,    \* "idle", "running", "returned", or "exited" after sys.exit(1)
    last,      \* what the last call of a per-file handler did
    sanIn,     \* the string given to the sanitizers
    sanOut     \* the results of the sanitizers, applied to sanIn and again

vars == <<fs, prog, todo, runStart, runs, status, last, sanIn, sanOut>>

-----------------------------------------------------------------------------
(* Bounds *)

MaxRuns == 2

MaxLen == 3

-----------------------------------------------------------------------------
(* Python strings *)

\* The value None, where a string is expected.
None == <<"<None>">>

\* Python's truth value of an optional string: None and "" are false.
Truthy(s) == s # None /\ s # <<>>

\* The characters str.strip() and str.split() treat as whitespace.
Whitespace == {" ", "\t", "\n", "\r", "\f"}

UpperLetters == <<"A", "B", "C", "D", "E", "F", "G", "H", "I", "J", "K", "L", "M",
                  "N", "O", "P", "Q", "R", "S", "T", "U", "V", "W", "X", "Y", "Z">>

LowerLetters == <<"a", "b", "c", "d", "e", "f", "g", "h", "i", "j", "k", "l", "m",
                  "n", "o", "p", "q", "r", "s", "t", "u", "v", "w", "x", "y", "z">>

LowerChar(c) ==
    IF \E i \in 1..26 : UpperLetters[i] = c
    THEN LowerLetters[CHOOSE i \in 1..26 : UpperLetters[i] = c]
    ELSE c

\* str.lower()
Lower(s) == [i \in 1..Len(s) |-> LowerChar(s[i])]

\* str.endswith(suffix)
EndsWith(s, suf) ==
    /\ Len(suf) <= Len(s)
    /\ SubSeq(s, Len(s) - Len(suf) + 1, Len(s)) = suf

RECURSIVE LStrip(_)
LStrip(s) == IF s # <<>> /\ Head(s) \in Whitespace THEN LStrip(Tail(s)) ELSE s

RECURSIVE RStrip(_)
RStrip(s) ==
    IF s # <<>> /\ s[Len(s)] \in Whitespace
    THEN RStrip(SubSeq(s, 1, Len(s) - 1))
    ELSE s

\* str.strip()
Strip(s) == RStrip(LStrip(s))

\* The length of the longest prefix of s without whitespace.
RECURSIVE WordLen(_)
WordLen(s) == IF s = <<>> \/ Head(s) \in Whitespace THEN 0 ELSE 1 + WordLen(Tail(s))

\* str.split(): the words between runs of whitespace.
RECURSIVE Split(_)
Split(s) ==
    LET t == LStrip(s)
        n == WordLen(t)
    IN  IF t = <<>> THEN <<>>
        ELSE <<SubSeq(t, 1, n)>> \o Split(SubSeq(t, n + 1, Len(t)))

\* sep.join(words)
RECURSIVE JoinWords(_, _)
JoinWords(sep, words) ==
    IF words = <<>> THEN <<>>
    ELSE IF Len(words) = 1 THEN words[1]
    ELSE words[1] \o sep \o JoinWords(sep, Tail(words))

\* str.replace(old, new) for a one-character old.
ReplaceChar(s, old, new) == [i \in 1..Len(s) |-> IF s[i] = old THEN new ELSE s[i]]

\* Removal of every character of a set (re.sub(class, '', s)).
RemoveChars(s, bad) == SelectSeq(s, LAMBDA c : c \notin bad)

DigitChars == <<"0", "1", "2", "3", "4", "5", "6", "7", "8", "9">>

\* str(n) for n >= 0, as the f-string formats the counter.
RECURSIVE Str(_)
Str(n) ==
    IF n < 10 THEN <<DigitChars[n + 1]>>
    ELSE Str(n \div 10) \o <<DigitChars[(n % 10) + 1]>>

-----------------------------------------------------------------------------
(* The sanitizers *)

\* The character class of the regular expression of sanitize_filename.
ImageForbidden == {"\\", "/", ":", "*", "?", "\"", "<", ">", "|"}

\* invalid_chars of _sanitize_filename.
invalid_chars == {"<", ">", ":", "\"", "/", "\\", "|", "?", "*", "\n", "\r", "\t"}

\* A variant of sanitize_filename that trims before it removes characters.
sanitize_filename_strip_first(filename) ==
    ReplaceChar(RemoveChars(Strip(filename), ImageForbidden), " ", "_")

\* ImageFileRenamer.sanitize_filename
sanitize_filename(filename) ==
    Strip(ReplaceChar(RemoveChars(filename, ImageForbidden), " ", "_"))

\* PDFRenamer._sanitize_filename
_sanitize_filename(filename) ==
    Strip(JoinWords(<<"_">>, Split(RemoveChars(filename, invalid_chars))))

-----------------------------------------------------------------------------
(* Paths and the file system *)

RootDir == "root"

SubDir == "root/sub"

\* os.path.join(directory, name), for a name without a separator.
join(directory, name) == [dir |-> directory, name |-> name]

\* os.path.dirname
dirname(p) == p.dir

\* os.path.basename
basename(p) == p.name

\* Where a handler has no path to report.
NoPath == join("", <<>>)

\* The positions of the dots of a name.
Dots(name) == {i \in 1..Len(name) : name[i] = "."}

\* os.path.splitext: the extension starts at the last dot, unless only dots
\* come before it.
splitext(name) ==
    IF Dots(name) = {} THEN [root |-> name, ext |-> <<>>]
    ELSE LET d == CHOOSE i \in Dots(name) : \A j \in Dots(name) : j <= i
         IN  IF \A j \in 1..(d - 1) : name[j] = "."
             THEN [root |-> name, ext |-> <<>>]
             ELSE [root |-> SubSeq(name, 1, d - 1), ext |-> SubSeq(name, d, Len(name))]

\* os.path.exists
exists(f, p) == p \in DOMAIN f

\* os.path.isfile
isfile(f, p) == p \in DOMAIN f /\ f[p].kind = "file"

\* os.rename(src, dst): the entry moves, replacing whatever was at dst.
rename(f, src, dst) ==
    [q \in (DOMAIN f \ {src}) \cup {dst} |-> IF q = dst THEN f[src] ELSE f[q]]

\* os.remove(p)
remove(f, p) == [q \in DOMAIN f \ {p} |-> f[q]]

\* Writing a file (open(p, "w+b") and the bytes): created or overwritten.
write(f, p, entry) == [q \in DOMAIN f \cup {p} |-> IF q = p THEN entry ELSE f[q]]

\* What a path holds: a directory, or a file with its bytes and, for a PDF,
\* the /Title of its metadata (None when it has none) and the text of its
\* first pages.
File(data, title, text) == [kind |-> "file", data |-> data, title |-> title, text |-> text]

Directory == [kind |-> "dir", data |-> "", title |-> None, text |-> <<>>]

\* The bytes img.thumbnail and img.save produce from an image.
Thumbnail(entry) == File("thumbnail of " \o entry.data, None, <<>>)

-----------------------------------------------------------------------------
(* Image renamer *)

supported_extensions ==
    { <<".", "p", "n", "g">>, <<".", "j", "p", "g">>, <<".", "j", "p", "e", "g">>,
      <<".", "g", "i", "f">>, <<".", "b", "m", "p">>, <<".", "t", "i", "f", "f">> }

\* filename.lower().endswith(self.supported_extensions)
IsSupportedImage(filename) ==
    \E e \in supported_extensions : EndsWith(Lower(filename), e)

\* The path of the temporary resized copy of an image.
temp_path(image_path) ==
    join(dirname(image_path), basename(image_path) \o <<".", "t", "m", "p">>)

\* ImageFileRenamer.create_resized_image: the file system afterwards and the
\* path returned (NoPath for None). ok is whether Image.open and img.save
\* succeed.
create_resized_image(f, image_path, ok) ==
    IF ok
    THEN [fs |-> write(f, temp_path(image_path), Thumbnail(f[image_path])),
          path |-> temp_path(image_path)]
    ELSE [fs |-> f, path |-> NoPath]

\* The name with the counter, as the f-string composes it.
Numbered(base, counter, ext) == base \o <<"_">> \o Str(counter) \o ext

\* The while loop of _process_single_image.
RECURSIVE ImageCollisionLoop(_, _, _, _, _, _)
ImageCollisionLoop(f, directory, base, ext, new_filename, counter) ==
    IF exists(f, join(directory, new_filename))
    THEN ImageCollisionLoop(f, directory, base, ext,
                            Numbered(base, counter, ext), counter + 1)
    ELSE new_filename

\* A variant of the name choice that tests the numbered name only once.
image_new_filename_if(f, directory, base, ext) ==
    IF exists(f, join(directory, base \o ext)) THEN Numbered(base, 1, ext)
    ELSE base \o ext

\* The name _process_single_image renames to: new_filename after the loop.
image_new_filename(f, directory, base, ext) ==
    ImageCollisionLoop(f, directory, base, ext, base \o ext, 1)

\* A variant of the finally block that never removes anything.
finally_cleanup_missing(f, resized_filepath) == f

\* The finally block of _process_single_image.
finally_cleanup(f, resized_filepath) ==
    IF resized_filepath # NoPath /\ exists(f, resized_filepath)
    THEN remove(f, resized_filepath)
    ELSE f

-----------------------------------------------------------------------------
(* The external model *)

\* The call of the external model raising an exception.
Failure == <<"<exception>">>

\* The texts the external model answers with.
Replies == { <<"a", "/", "\n">>, <<"?", "\n">> }

-----------------------------------------------------------------------------
(* What a per-file handler reports of one call *)

Report(op, p, f) ==
    [op |-> op, path |-> p, outcome |-> "", pre |-> f, at |-> f, fs |-> f,
     renamed |-> FALSE, target |-> NoPath, invoked |-> FALSE, failed |-> FALSE,
     title |-> None, base |-> <<>>, ext |-> <<>>, tmp |-> NoPath, exit |-> FALSE]

-----------------------------------------------------------------------------
(* Image renamer: one file *)

\* ImageFileRenamer._process_single_image. resizeOk: create_resized_image
\* succeeds; loadOk: load_image opens the resized copy; reply: what
\* generate_content does. load_image and get_response end in sys.exit(1) on
\* an exception: SystemExit passes the "except Exception" clause, the
\* finally block runs, and the process ends.
_process_single_image(f, original_filepath, resizeOk, loadOk, reply) ==
    LET filename == basename(original_filepath)
        directory == dirname(original_filepath)
        r0 == Report("image", original_filepath, f)
        resized == create_resized_image(f, original_filepath, resizeOk)
        r1 == [r0 EXCEPT !.tmp = resized.path, !.at = resized.fs]
        file_extension == splitext(filename).ext
        sanitized_description == sanitize_filename(reply)
        new_filename == image_new_filename(resized.fs, directory,
                                           sanitized_description, file_extension)
        new_filepath == join(directory, new_filename)
    IN  IF ~IsSupportedImage(filename)
        THEN [r0 EXCEPT !.outcome = "unsupported"]
        ELSE IF resized.path = NoPath
        THEN [r1 EXCEPT !.outcome = "resize error",
                        !.fs = finally_cleanup(resized.fs, resized.path)]
        ELSE IF ~loadOk
        THEN [r1 EXCEPT !.outcome = "exit", !.exit = TRUE,
                        !.fs = finally_cleanup(resized.fs, resized.path)]
        ELSE IF reply = Failure
        THEN [r1 EXCEPT !.outcome = "exit", !.exit = TRUE,
                        !.invoked = TRUE, !.failed = TRUE,
                        !.fs = finally_cleanup(resized.fs, resized.path)]
        ELSE [r1 EXCEPT !.outcome = "renamed", !.invoked = TRUE,
                        !.title = reply, !.base = sanitized_description,
                        !.ext = file_extension,
                        !.renamed = TRUE, !.target = new_filepath,
                        !.fs = finally_cleanup(
                                   rename(resized.fs, original_filepath, new_filepath),
                                   resized.path)]

-----------------------------------------------------------------------------
(* PDF renamer: one file *)

PdfExtension == <<".", "p", "d", "f">>

\* filename.lower().endswith('.pdf')
IsPdf(filename) == EndsWith(Lower(filename), PdfExtension)

\* PDFRenamer._get_pdf_metadata_title: the /Title of the metadata, or None.
_get_pdf_metadata_title(f, pdf_path) == f[pdf_path].title

\* PDFRenamer._get_first_page_text
_get_first_page_text(f, pdf_path) == f[pdf_path].text

\* PDFRenamer._get_title_from_gemini: whether the model was called, whether
\* the call raised, and the value returned.
_get_title_from_gemini(text_content, reply) ==
    IF Strip(text_content) = <<>>
    THEN [invoked |-> FALSE, failed |-> FALSE, title |-> None]
    ELSE IF reply = Failure
    THEN [invoked |-> TRUE, failed |-> TRUE, title |-> None]
    ELSE [invoked |-> TRUE, failed |-> FALSE, title |-> Strip(reply)]

\* A variant of the fallback test that ignores the metadata title.
metadata_title_missing_always(new_title) == TRUE

\* "if not new_title" after the metadata lookup of process_file.
metadata_title_missing(new_title) == ~Truthy(new_title)

\* The while loop of process_file.
RECURSIVE PdfCollisionLoop(_, _, _, _, _, _)
PdfCollisionLoop(f, directory, base, ext, final_new_filename, counter) ==
    IF exists(f, join(directory, final_new_filename))
    THEN PdfCollisionLoop(f, directory, base, ext,
                          Numbered(base, counter, ext), counter + 1)
    ELSE final_new_filename

\* A variant of the name choice whose counter is incremented before its use.
pdf_final_new_filename_from_2(f, directory, base, ext) ==
    PdfCollisionLoop(f, directory, base, ext, base \o ext, 2)

\* The name process_file renames to: final_new_filename after the loop.
pdf_final_new_filename(f, directory, base, ext) ==
    PdfCollisionLoop(f, directory, base, ext, base \o ext, 1)

\* PDFRenamer.process_file
process_file(f, pdf_path, reply) ==
    LET original_directory == dirname(pdf_path)
        original_filename == basename(pdf_path)
        extension == splitext(original_filename).ext
        r0 == Report("pdf", pdf_path, f)
        metadata_title == _get_pdf_metadata_title(f, pdf_path)
        fallback == metadata_title_missing(metadata_title)
        text_content == _get_first_page_text(f, pdf_path)
        gemini == _get_title_from_gemini(text_content, reply)
        new_title == IF fallback THEN gemini.title ELSE metadata_title
        r1 == IF fallback
              THEN [r0 EXCEPT !.invoked = gemini.invoked, !.failed = gemini.failed,
                              !.title = new_title]
              ELSE [r0 EXCEPT !.title = new_title]
        sanitized_title == _sanitize_filename(new_title)
        final_new_filename == pdf_final_new_filename(f, original_directory,
                                                     sanitized_title, extension)
        new_pdf_path == join(original_directory, final_new_filename)
    IN  IF ~exists(f, pdf_path)
        THEN [r0 EXCEPT !.outcome = "not found"]
        ELSE IF fallback /\ text_content = <<>>
        THEN [r0 EXCEPT !.outcome = "no text"]
        ELSE IF ~Truthy(new_title)
        THEN [r1 EXCEPT !.outcome = "no title"]
        ELSE IF sanitized_title = <<>>
        THEN [r1 EXCEPT !.outcome = "empty title"]
        ELSE IF pdf_path # new_pdf_path
        THEN [r1 EXCEPT !.outcome = "renamed", !.base = sanitized_title,
                        !.ext = extension, !.renamed = TRUE,
                        !.target = new_pdf_path,
                        !.fs = rename(f, pdf_path, new_pdf_path)]
        ELSE [r1 EXCEPT !.outcome = "already named", !.base = sanitized_title,
                        !.ext = extension]

-----------------------------------------------------------------------------
(* The directories the scripts are run on *)

Name(stem, ext) == stem \o ext

PNG == <<".", "p", "n", "g">>

Entry(directory, name, entry) == [path |-> join(directory, name), entry |-> entry]

\* The file system holding the given entries.
MkFs(entries) ==
    [p \in {e.path : e \in entries} |-> (CHOOSE e \in entries : e.path = p).entry]

\* Always there: the subdirectory of the root directory and a text file.
BaseEntries ==
    { Entry(RootDir, <<"s", "u", "b">>, Directory),
      Entry(RootDir, <<"n", ".", "t", "x", "t">>, File("text", None, <<>>)) }

ImagePool ==
    { Entry(RootDir, Name(<<"a">>, PNG), File("image 1", None, <<>>)),
      Entry(RootDir, Name(<<"a", "_", "1">>, PNG), File("image 2", None, <<>>)),
      Entry(RootDir, Name(<<"a">>, PNG) \o <<".", "t", "m", "p">>, File("notes", None, <<>>)),
      Entry(SubDir, Name(<<"a">>, <<".", "P", "N", "G">>), File("image 3", None, <<>>)) }

PdfPool ==
    { Entry(RootDir, Name(<<"a">>, PdfExtension), File("pdf 1", None, <<"t">>)),
      Entry(RootDir, Name(<<"b">>, PdfExtension), File("pdf 2", <<"a">>, <<"t">>)),
      Entry(RootDir, Name(<<"c">>, PdfExtension), File("pdf 3", <<"?">>, <<"t">>)),
      Entry(RootDir, Name(<<"d">>, PdfExtension), File("pdf 4", <<>>, <<" ">>)),
      Entry(RootDir, Name(<<"e">>, PdfExtension), File("pdf 5", None, <<>>)) }

InitialFileSystems ==
    {MkFs(BaseEntries \cup S) : S \in SUBSET ImagePool}
        \cup {MkFs(BaseEntries \cup S) : S \in SUBSET PdfPool}

-----------------------------------------------------------------------------
(* The scripts *)

NoReport == Report("none", NoPath, <<>>)

Init ==
    /\ fs \in InitialFileSystems
    /\ prog = "none"
    /\ todo = {}
    /\ runStart = fs
    /\ runs = 0
    /\ status = "idle"
    /\ last = NoReport
    /\ sanIn = <<>>
    /\ sanOut = [image |-> <<>>, pdf |-> <<>>]

Start(script, listed) ==
    /\ status # "running"
    /\ runs < MaxRuns
    /\ prog' = script
    /\ status' = "running"
    /\ todo' = listed
    /\ runStart' = fs
    /\ runs' = runs + 1
    /\ UNCHANGED <<fs, last, sanIn, sanOut>>

\* ImageFileRenamer.rename_input on a file.
RenameInputFile ==
    \E p \in DOMAIN fs :
        /\ isfile(fs, p)
        /\ Start("image", {p})

\* ImageFileRenamer.rename_input on the root directory: os.walk lists the
\* files of the directory and of its subdirectories.
RenameInputDir ==
    Start("image", {p \in DOMAIN fs : fs[p].kind = "file"})

\* PDFRenamer.run on a file.
RunFile ==
    \E p \in DOMAIN fs :
        /\ isfile(fs, p)
        /\ IsPdf(basename(p))
        /\ Start("pdf", {p})

\* PDFRenamer.run on the root directory: os.listdir, not recursive.
RunDir ==
    Start("pdf", {p \in DOMAIN fs : dirname(p) = RootDir /\ IsPdf(basename(p))})

\* os.walk is top-down: the files of a directory come before those of its
\* subdirectories, in no particular order among themselves.
NextListed ==
    IF \E p \in todo : dirname(p) = RootDir
    THEN {p \in todo : dirname(p) = RootDir}
    ELSE todo

Handled(p, r) ==
    /\ fs' = r.fs
    /\ todo' = todo \ {p}
    /\ status' = IF r.exit THEN "exited" ELSE status
    /\ last' = [r EXCEPT !.fs = <<>>]
    /\ UNCHANGED <<prog, runStart, runs, sanIn, sanOut>>

\* What the environment does during one call of _process_single_image: the
\* resize fails, or the resized copy cannot be loaded, or the model is called
\* and raises or answers.
ImageEnvironments ==
    { [resizeOk |-> FALSE, loadOk |-> FALSE, reply |-> Failure],
      [resizeOk |-> TRUE, loadOk |-> FALSE, reply |-> Failure] }
        \cup {[resizeOk |-> TRUE, loadOk |-> TRUE, reply |-> r] : r \in Replies \cup {Failure}}

\* One iteration of the loop of rename_input.
ProcessSingleImage ==
    /\ status = "running"
    /\ prog = "image"
    /\ \E p \in NextListed, e \in ImageEnvironments :
           Handled(p, _process_single_image(fs, p, e.resizeOk, e.loadOk, e.reply))

\* One iteration of the loop of run.
ProcessFile ==
    /\ status = "running"
    /\ prog = "pdf"
    /\ \E p \in todo, reply \in Replies \cup {Failure} :
           Handled(p, process_file(fs, p, reply))

\* The loop is over: the script returns.
Return ==
    /\ status = "running"
    /\ todo = {}
    /\ status' = "returned"
    /\ UNCHANGED <<fs, prog, todo, runStart, runs, last, sanIn, sanOut>>

Next ==
    \/ RenameInputFile
    \/ RenameInputDir
    \/ RunFile
    \/ RunDir
    \/ ProcessSingleImage
    \/ ProcessFile
    \/ Return

Spec == Init /\ [][Next]_vars

-----------------------------------------------------------------------------
(* The sanitizers on their own: every string up to MaxLen over SanChars is  *)
(* sanitized, and the result sanitized again.                              *)

SanChars == {"a", "_", " ", "\t", "\f", "/"}

RECURSIVE StringsUpTo(_)
StringsUpTo(n) ==
    IF n = 0 THEN {<<>>}
    ELSE LET shorter == StringsUpTo(n - 1)
         IN  shorter \cup {Append(t, c) : t \in {u \in shorter : Len(u) = n - 1},
                                          c \in SanChars}

SanInit ==
    /\ sanIn \in StringsUpTo(MaxLen)
    /\ sanOut = [image |-> <<>>, pdf |-> <<>>]
    /\ fs = <<>>
    /\ prog = "none"
    /\ todo = {}
    /\ runStart = <<>>
    /\ runs = 0
    /\ status = "idle"
    /\ last = NoReport

\* The string the next call is given: the input, then the previous result.
SanArg(results) == IF results = <<>> THEN sanIn ELSE results[Len(results)]

\* ImageFileRenamer.sanitize_filename applied once more.
SanitizeImage ==
    /\ Len(sanOut.image) < 2
    /\ sanOut' = [sanOut EXCEPT !.image = Append(@, sanitize_filename(SanArg(@)))]
    /\ UNCHANGED <<fs, prog, todo, runStart, runs, status, last, sanIn>>

\* PDFRenamer._sanitize_filename applied once more.
SanitizePdf ==
    /\ Len(sanOut.pdf) < 2
    /\ sanOut' = [sanOut EXCEPT !.pdf = Append(@, _sanitize_filename(SanArg(@)))]
    /\ UNCHANGED <<fs, prog, todo, runStart, runs, status, last, sanIn>>

SanNext ==
    \/ SanitizeImage
    \/ SanitizePdf

SanSpec == SanInit /\ [][SanNext]_vars

-----------------------------------------------------------------------------
(* Properties *)

\* The attributes a PDF had when the last handler call started.
LastMetadataTitle == last.pre[last.path].title

LastText == last.pre[last.path].text

\* The sanitizer of the script the last handler call belongs to.
LastSanitized(text) ==
    IF last.op = "image" THEN sanitize_filename(text) ELSE _sanitize_filename(text)

\* The file system at the moment of the rename, and now, without the
\* temporary copy of the image renamer (it is there before and after the
\* rename, and removed on the way out).
WithoutTemp(f) == DOMAIN f \ {last.tmp}

\* C1: every rename goes to a path at which nothing existed at the moment of
\* the rename; the renamed file arrives there with its content, every other
\* entry is still there with its content, and the directory has as many
\* entries after the rename as before.
C1_RenameNeverOverwrites ==
    last.renamed =>
        /\ ~exists(last.at, last.target)
        /\ exists(last.at, last.path)
        /\ exists(fs, last.target) /\ fs[last.target] = last.at[last.path]
        /\ \A q \in WithoutTemp(last.at) \ {last.path} :
               exists(fs, q) /\ fs[q] = last.at[q]
        /\ Cardinality(WithoutTemp(fs)) = Cardinality(WithoutTemp(last.at))

\* A rename whose first choice of name was taken by another file.
C1_Witness ==
    /\ last.renamed
    /\ last.op = "image"
    /\ join(dirname(last.path), last.base \o last.ext) # last.path
    /\ exists(last.at, join(dirname(last.path), last.base \o last.ext))

\* Whether base_n+ext is free in a directory.
FreeNumbered(f, directory, base, ext, n) ==
    ~exists(f, join(directory, Numbered(base, n, ext)))

\* The name the collision rule asks for: base+ext when free, else base_n+ext
\* for the least n >= 1 that is free.
ExpectedName(f, directory, base, ext) ==
    IF ~exists(f, join(directory, base \o ext)) THEN base \o ext
    ELSE LET candidates == 1..(Cardinality(DOMAIN f) + 1)
             n == CHOOSE k \in candidates :
                      /\ FreeNumbered(f, directory, base, ext, k)
                      /\ \A m \in 1..(k - 1) : ~FreeNumbered(f, directory, base, ext, m)
         IN  Numbered(base, n, ext)

\* C2: the name a file is renamed to is base+ext when no entry of that name
\* exists, and otherwise base_n+ext for the smallest n >= 1 such that no
\* entry base_n+ext exists, in the directory of the file, for both renamers.
C2_SmallestFreeSuffix ==
    last.renamed =>
        /\ dirname(last.target) = dirname(last.path)
        /\ basename(last.target) =
               ExpectedName(last.at, dirname(last.path), last.base, last.ext)

\* With base+ext and base_1+ext taken, the PDF renamer chose base_2+ext.
C2_Witness ==
    /\ last.renamed
    /\ last.op = "pdf"
    /\ exists(last.at, join(dirname(last.path), last.base \o last.ext))
    /\ exists(last.at, join(dirname(last.path), Numbered(last.base, 1, last.ext)))
    /\ basename(last.target) = Numbered(last.base, 2, last.ext)

C4_FailureSkipsFile ==
    last.failed =>
        /\ status # "exited"
        /\ exists(fs, last.path) /\ fs[last.path] = last.pre[last.path]

\* C5: when the text obtained for a file sanitizes to the empty string, no
\* rename is performed, the file keeps its name, and the run goes on.
C5_EmptyTitleSkipsFile ==
    (last.op # "none" /\ last.title # None /\ LastSanitized(last.title) = <<>>) =>
        /\ ~last.renamed
        /\ fs = last.pre
        /\ status # "exited"

\* The names a file may get from a base: base+ext and base_n+ext.
IsNameFor(name, f, base, ext) ==
    \/ name = base \o ext
    \/ \E n \in 1..(Cardinality(DOMAIN f) + 1) : name = Numbered(base, n, ext)

\* The model is called only for a PDF without a metadata title and with text.
ModelOnlyAsFallback ==
    (last.op = "pdf" /\ last.invoked) =>
        /\ ~Truthy(LastMetadataTitle)
        /\ LastText # <<>>

C7_OtherFilesUntouched ==
    \A p \in DOMAIN runStart :
        ( /\ runStart[p].kind = "file"
          /\ \/ prog = "image" /\ ~IsSupportedImage(basename(p))
             \/ prog = "pdf" /\ ~IsPdf(basename(p)) )
            => exists(fs, p) /\ fs[p] = runStart[p]

\* The sanitized name of the data model: forbidden characters removed, the
\* ends trimmed, each run of whitespace between words made one underscore.
Normalized(s) == JoinWords(<<"_">>, Split(RemoveChars(s, ImageForbidden)))

SanitizedAsClaimed(arg, out) ==
    /\ \A i \in 1..Len(out) : out[i] \notin ImageForbidden \cup Whitespace
    /\ out = Normalized(arg)

\* C8: the output of each sanitizer has none of the characters
\* \ / : * ? " < > | and no whitespace: the ends are trimmed and every run of
\* whitespace between words is one underscore.
C8_SanitizedIsClean ==
    /\ Len(sanOut.image) >= 1 => SanitizedAsClaimed(sanIn, sanOut.image[1])
    /\ Len(sanOut.pdf) >= 1 => SanitizedAsClaimed(sanIn, sanOut.pdf[1])

\* C9: sanitizing the result of a sanitizer gives that result again, for
\* both sanitizers.
C9_SanitizeIdempotent ==
    /\ Len(sanOut.image) = 2 => sanOut.image[2] = sanOut.image[1]
    /\ Len(sanOut.pdf) = 2 => sanOut.pdf[2] = sanOut.pdf[1]

\* Both sanitizers ran twice on a string each of them changes.
C9_Witness ==
    /\ Len(sanOut.image) = 2
    /\ Len(sanOut.pdf) = 2
    /\ sanOut.image[1] # sanIn
    /\ sanOut.pdf[1] # sanIn
    /\ sanOut.image[1] # sanOut.pdf[1]

\* C10: process_file leaves a PDF alone when its name already is its
\* sanitized title plus its extension.
C10_AlreadyNamedIsKept ==
    ( /\ last.op = "pdf"
      /\ Truthy(last.title)
      /\ basename(last.path) =
             _sanitize_filename(last.title) \o splitext(basename(last.path)).ext )
        => ~last.renamed /\ fs = last.pre

=============================================================================
